---- MODULE Spec2Model ----
(***************************************************************************)
(* A model of CompactBlueprintParser (src/src/blueprints/parser.py).       *)
(*                                                                         *)
(* Text is modelled as TLA+ strings; a character is a string of length 1.  *)
(* String positions are 1-based as in TLA+, list indices (the cursor, the  *)
(* start index of a component) are 0-based as in the Python source, and    *)
(* LineAt translates between the two.  An Optional[str] is a sequence of   *)
(* zero (None) or one string.                                              *)
(***************************************************************************)
EXTENDS Integers, Sequences, FiniteSets, TLC

VARIABLES content, pc, lines, i, blueprint, error, visited, consumed, depsLog,
          arg, res

vars == <<content, pc, lines, i, blueprint, error, visited, consumed, depsLog,
          arg, res>>

(***************************************************************************)
(* Python str primitives.                                                  *)
(***************************************************************************)
UpperChars == "ABCDEFGHIJKLMNOPQRSTUVWXYZ"
LowerChars == "abcdefghijklmnopqrstuvwxyz"
DigitChars == "0123456789"

UpperSet == {SubSeq(UpperChars, k, k) : k \in 1..26}
LowerSet == {SubSeq(LowerChars, k, k) : k \in 1..26}
DigitSet == {SubSeq(DigitChars, k, k) : k \in 1..10}

\* s[a-1:b] for 1-based positions a, b; empty when the range is
Slice(s, a, b) == IF a > b \/ a > Len(s) THEN "" ELSE SubSeq(s, a, b)

\* the character at 1-based position k, empty past the end
At(s, k) == IF 1 <= k /\ k <= Len(s) THEN SubSeq(s, k, k) ELSE ""

\* s[k-1:] for a 1-based position k
From(s, k) == Slice(s, k, Len(s))

\* sub in s
Contains(s, sub) ==
    \E k \in 1..(Len(s) - Len(sub) + 1) : SubSeq(s, k, k + Len(sub) - 1) = sub

\* s.startswith(p)
StartsWith(s, p) == Len(s) >= Len(p) /\ SubSeq(s, 1, Len(p)) = p

\* the first position from k on where s has the character c, Len(s)+1 if none
RECURSIVE Find(_, _, _)
Find(s, k, c) ==
    IF k > Len(s) \/ SubSeq(s, k, k) = c THEN k ELSE Find(s, k + 1, c)

\* s.index(c), 1-based, for a character c that occurs in s
IndexOf(s, c) == Find(s, 1, c)

\* c in s for one character c
HasChar(s, c) == Find(s, 1, c) <= Len(s)

IsSpace(c) == c \in {" ", "\t", "\n", "\r"}
IsUpper(c) == c \in UpperSet
IsLower(c) == c \in LowerSet
IsDigit(c) == c \in DigitSet
\* the regular expression class \w
IsWord(c) == IsUpper(c) \/ IsLower(c) \/ IsDigit(c) \/ c = "_"

\* the character classes the scans below are used with
InClass(cls, c) ==
    CASE cls = "space" -> IsSpace(c)
      [] cls = "word"  -> IsWord(c)
      [] cls = "hash"  -> c = "#"
      [] cls = "quote" -> c = "\""

\* the first position from k on whose character is not in the class
RECURSIVE FirstNot(_, _, _)
FirstNot(s, k, cls) ==
    IF k > Len(s) \/ ~InClass(cls, SubSeq(s, k, k)) THEN k
    ELSE FirstNot(s, k + 1, cls)

\* the last position up to k whose character is not in the class
RECURSIVE LastNot(_, _, _)
LastNot(s, k, cls) ==
    IF k < 1 \/ ~InClass(cls, SubSeq(s, k, k)) THEN k
    ELSE LastNot(s, k - 1, cls)

\* s.strip(chars): the characters of the class are removed at both ends
StripBy(s, cls) == Slice(s, FirstNot(s, 1, cls), LastNot(s, Len(s), cls))

\* s.strip()
Strip(s) == StripBy(s, "space")

\* s.split(sep) for a one-character sep
RECURSIVE Split(_, _)
Split(s, sep) ==
    IF ~HasChar(s, sep) THEN <<s>>
    ELSE LET k == IndexOf(s, sep)
         IN  <<Slice(s, 1, k - 1)>> \o Split(From(s, k + 1), sep)

\* s.split(sep, 1)[0] and [1] for a sep that occurs in s
Before(s, sep) == Slice(s, 1, IndexOf(s, sep) - 1)
After(s, sep) == From(s, IndexOf(s, sep) + 1)

\* [x.strip() for x in seq]
StripAll(seq) == [k \in 1..Len(seq) |-> Strip(seq[k])]

\* c.lower() for one character
LowerChar(c) == IF IsUpper(c) THEN At(LowerChars, IndexOf(UpperChars, c)) ELSE c

\* s.lower()
RECURSIVE Lower(_)
Lower(s) == IF s = "" THEN "" ELSE LowerChar(At(s, 1)) \o Lower(From(s, 2))

\* s.isupper(): no lowercase character and at least one uppercase one
StrIsUpper(s) ==
    /\ \A k \in 1..Len(s) : ~IsLower(At(s, k))
    /\ \E k \in 1..Len(s) : IsUpper(At(s, k))

\* the longest prefix of s made of \w characters, as a length
WordRun(s) == FirstNot(s, 1, "word") - 1

\* the longest prefix of s made of whitespace, as a length
SpaceRun(s) == FirstNot(s, 1, "space") - 1

\* s with its leading whitespace removed (what a greedy \s* leaves)
SkipSpace(s) == From(s, SpaceRun(s) + 1)

\* lines[idx] for a 0-based idx
LineAt(ls, idx) == ls[idx + 1]

None == <<>>
Some(v) == <<v>>

(***************************************************************************)
(* The data classes.                                                       *)
(***************************************************************************)
Method(name, params, return_type, comment, decorators, is_async) ==
    [name |-> name, params |-> params, return_type |-> return_type,
     comment |-> comment, decorators |-> decorators, is_async |-> is_async]

\* properties is the value of the "type" key, None when the dict is empty
Component(type, name, base_class, methods, properties, value, docstring) ==
    [type |-> type, name |-> name, base_class |-> base_class,
     methods |-> methods, properties |-> properties, value |-> value,
     docstring |-> docstring]

BlueprintReference(module_path, items) ==
    [module_path |-> module_path, items |-> items]

Blueprint(module_name, description, raw_content) ==
    [module_name |-> module_name, description |-> description,
     blueprint_refs |-> <<>>, components |-> <<>>, notes |-> <<>>,
     raw_content |-> raw_content]

(***************************************************************************)
(* _parse_blueprint_refs                                                   *)
(***************************************************************************)
\* a bug: the leading "." is removed like the leading "@"
RefOfEntry_StripDot(dep) ==
    LET marked(t) == IF StartsWith(t, "@") \/ StartsWith(t, ".") THEN From(t, 2) ELSE t
    IN  IF HasChar(dep, "[") /\ HasChar(dep, "]")
        THEN BlueprintReference(
                 marked(Strip(Slice(dep, 1, IndexOf(dep, "[") - 1))),
                 StripAll(Split(Slice(dep, IndexOf(dep, "[") + 1, IndexOf(dep, "]") - 1),
                                ",")))
        ELSE BlueprintReference(marked(dep), <<>>)

\* the reference built from one entry that starts with "." or "@"
RefOfEntry(dep) ==
    IF HasChar(dep, "[") /\ HasChar(dep, "]")
    THEN LET package   == Strip(Slice(dep, 1, IndexOf(dep, "[") - 1))
             items_str == Slice(dep, IndexOf(dep, "[") + 1, IndexOf(dep, "]") - 1)
         IN  BlueprintReference(
                 IF StartsWith(package, "@") THEN From(package, 2) ELSE package,
                 StripAll(Split(items_str, ",")))
    ELSE BlueprintReference(
             IF StartsWith(dep, "@") THEN From(dep, 2) ELSE dep, <<>>)

\* a bug: only the entries that start with "." are kept
RECURSIVE RefsOfEntries_DotOnly(_)
RefsOfEntries_DotOnly(deps) ==
    IF deps = <<>> THEN <<>>
    ELSE LET dep == Strip(Head(deps))
         IN  (IF dep # "" /\ StartsWith(dep, ".")
              THEN <<RefOfEntry(dep)>> ELSE <<>>)
             \o RefsOfEntries_DotOnly(Tail(deps))

RECURSIVE RefsOfEntries(_)
RefsOfEntries(deps) ==
    IF deps = <<>> THEN <<>>
    ELSE LET dep == Strip(Head(deps))
         IN  (IF dep # "" /\ (StartsWith(dep, ".") \/ StartsWith(dep, "@"))
              THEN <<RefOfEntry(dep)>> ELSE <<>>)
             \o RefsOfEntries(Tail(deps))

ParseBlueprintRefs(deps_str) == RefsOfEntries(Split(deps_str, ";"))

(***************************************************************************)
(* Pieces of the regular expressions.                                      *)
(***************************************************************************)
\* the text after an optional leading "async\s+"
AfterAsync(line) ==
    IF StartsWith(line, "async") /\ SpaceRun(From(line, 6)) >= 1
    THEN SkipSpace(From(line, 6)) ELSE line

\* t matches  :?\s*$
ColonSpaceTail(t) ==
    \/ SkipSpace(t) = ""
    \/ StartsWith(t, ":") /\ SkipSpace(From(t, 2)) = ""

\* t matches  \s*->\s*.+  ; ArrowRest is what follows the arrow
HasArrow(t) == StartsWith(SkipSpace(t), "->") /\ From(SkipSpace(t), 3) # ""
ArrowRest(t) == From(SkipSpace(t), 3)

\* the least element of a non-empty set of numbers
Least(S) == CHOOSE k \in S : \A j \in S : k <= j

\* ^[A-Z][A-Z0-9_]*:
ConstPrefix(line) ==
    /\ HasChar(line, ":")
    /\ IndexOf(line, ":") >= 2
    /\ IsUpper(At(line, 1))
    /\ \A k \in 2..(IndexOf(line, ":") - 1) :
          IsUpper(At(line, k)) \/ IsDigit(At(line, k)) \/ At(line, k) = "_"

\* ^(?:async\s+)?def\s+\w+\(
FuncPrefix(line) ==
    LET b == AfterAsync(line)
        c == SkipSpace(From(b, 4))
    IN  /\ StartsWith(b, "def")
        /\ SpaceRun(From(b, 4)) >= 1
        /\ WordRun(c) >= 1
        /\ At(c, WordRun(c) + 1) = "("

\* ^\w+(?:\([^)]{minInner,}\))?:?\s*$
ClassShape(line, minInner) ==
    LET n    == WordRun(line)
        rest == From(line, n + 1)
    IN  /\ n >= 1
        /\ \/ ColonSpaceTail(rest)
           \/ /\ StartsWith(rest, "(")
              /\ HasChar(rest, ")")
              /\ IndexOf(rest, ")") - 2 >= minInner
              /\ ColonSpaceTail(From(rest, IndexOf(rest, ")") + 1))

(***************************************************************************)
(* _parse_method                                                           *)
(***************************************************************************)
\* ^(?:async\s+)?(\w+)\((.*?)\)(?:\s*->\s*(.+))?$ on the text without comment
MethodSignature(line, comment) ==
    LET body   == AfterAsync(line)
        n      == WordRun(body)
        rest   == From(body, n + 2)
        closes == {k \in 1..Len(rest) :
                      /\ At(rest, k) = ")"
                      /\ \/ From(rest, k + 1) = ""
                         \/ HasArrow(From(rest, k + 1))}
    IN  IF n >= 1 /\ At(body, n + 1) = "(" /\ closes # {}
        THEN LET k    == Least(closes)
                 tail == From(rest, k + 1)
             IN  Some(Method(Slice(body, 1, n), Slice(rest, 1, k - 1),
                             IF tail = "" THEN None
                             ELSE Some(Strip(ArrowRest(tail))),
                             comment, <<>>, StartsWith(Strip(line), "async ")))
        ELSE None

ParseMethod(line0) ==
    LET hasComment == HasChar(line0, "#")
        line       == IF hasComment THEN Strip(Before(line0, "#")) ELSE line0
        comment    == IF hasComment THEN Some(Strip(After(line0, "#"))) ELSE None
    IN  IF HasChar(line, ":") /\ ~HasChar(line, "(")
        THEN Some(Method(Strip(Before(line, ":")), "",
                         Some(Strip(After(line, ":"))), comment, <<>>, FALSE))
        ELSE MethodSignature(line, comment)

(***************************************************************************)
(* _parse_component                                                        *)
(***************************************************************************)
\* the class-member loop: the lines from 0-based index k on that, stripped,
\* start with "-" or "@" or are blank
IsBodyLine(ls, k) ==
    /\ k < Len(ls)
    /\ \/ StartsWith(Strip(LineAt(ls, k)), "-")
       \/ StartsWith(Strip(LineAt(ls, k)), "@")
       \/ Strip(LineAt(ls, k)) = ""

\* the index at which the class-member loop started at k stops
RECURSIVE BodyStop(_, _)
BodyStop(ls, k) == IF IsBodyLine(ls, k) THEN BodyStop(ls, k + 1) ELSE k

\* a bug: the pending decorators are not cleared when a method takes them
RECURSIVE ClassMembers_KeepsDecorators(_, _, _, _)
ClassMembers_KeepsDecorators(ls, k, decorators, methods) ==
    IF ~IsBodyLine(ls, k) THEN methods
    ELSE LET member_line == Strip(LineAt(ls, k))
             method      == IF StartsWith(member_line, "-")
                            THEN ParseMethod(Strip(From(member_line, 2)))
                            ELSE None
         IN  IF StartsWith(member_line, "-")
             THEN IF method # None
                  THEN ClassMembers_KeepsDecorators(ls, k + 1, decorators,
                           Append(methods,
                                  [method[1] EXCEPT !.decorators = @ \o decorators]))
                  ELSE ClassMembers_KeepsDecorators(ls, k + 1, decorators, methods)
             ELSE IF StartsWith(member_line, "@")
                  THEN ClassMembers_KeepsDecorators(ls, k + 1,
                           Append(decorators, member_line), methods)
                  ELSE ClassMembers_KeepsDecorators(ls, k + 1, decorators, methods)

\* the methods the class-member loop collects from index k on
RECURSIVE ClassMembers(_, _, _, _)
ClassMembers(ls, k, decorators, methods) ==
    IF ~IsBodyLine(ls, k) THEN methods
    ELSE LET member_line == Strip(LineAt(ls, k))
             method      == IF StartsWith(member_line, "-")
                            THEN ParseMethod(Strip(From(member_line, 2)))
                            ELSE None
         IN  IF StartsWith(member_line, "-")
             THEN IF method # None
                  THEN ClassMembers(ls, k + 1, <<>>,
                           Append(methods,
                                  [method[1] EXCEPT !.decorators = @ \o decorators]))
                  ELSE ClassMembers(ls, k + 1, decorators, methods)
             ELSE IF StartsWith(member_line, "@")
                  THEN ClassMembers(ls, k + 1, Append(decorators, member_line), methods)
                  ELSE ClassMembers(ls, k + 1, decorators, methods)

\* the decorators above a function: the lines before start_idx that start "@"
RECURSIVE DecoratorsAbove(_, _)
DecoratorsAbove(ls, check_idx) ==
    IF check_idx >= 0 /\ StartsWith(Strip(LineAt(ls, check_idx)), "@")
    THEN Append(DecoratorsAbove(ls, check_idx - 1), Strip(LineAt(ls, check_idx)))
    ELSE <<>>

\* rule 1, the assignment form
AssignGuard(line) == HasChar(line, "=") /\ ~StartsWith(line, "-")
AssignName(line) == Strip(Before(line, "="))
AssignValue(line) == Strip(After(line, "="))

\* name[0] of an empty name raises IndexError
AssignRaises(line) ==
    AssignGuard(line) /\ ~HasChar(AssignName(line), ":") /\ AssignName(line) = ""

IsTypeAliasName(name) ==
    \/ IsUpper(At(name, 1)) /\ \E k \in 1..Len(name) : IsLower(At(name, k))
    \/ Contains(Lower(name), "type")

IsAutoConstantName(name) == StrIsUpper(name) /\ HasChar(name, "_")

AssignRule(line) ==
    IF AssignGuard(line) /\ ~HasChar(AssignName(line), ":")
    THEN IF IsTypeAliasName(AssignName(line))
         THEN Some(Component("type_alias", AssignName(line), None, <<>>, None,
                             Some(AssignValue(line)), None))
         ELSE IF IsAutoConstantName(AssignName(line))
         THEN Some(Component("constant", AssignName(line), None, <<>>,
                             Some("auto"), Some(AssignValue(line)), None))
         ELSE None
    ELSE None

\* rule 2:  ^([A-Z][A-Z0-9_]*):\s*([^=]+)(?:\s*=\s*(.+))?$
ConstantRule(line) ==
    IF ~ConstPrefix(line) THEN None
    ELSE LET name == Before(line, ":")
             rest == After(line, ":")
         IN  IF ~HasChar(rest, "=")
             THEN IF rest = "" THEN None
                  ELSE Some(Component("constant", name, None, <<>>,
                                      Some(Strip(rest)), None, None))
             ELSE IF Before(rest, "=") = "" \/ After(rest, "=") = "" THEN None
                  ELSE Some(Component("constant", name, None, <<>>,
                                      Some(Strip(Before(rest, "="))),
                                      Some(Strip(After(rest, "="))), None))

\* rule 3:  ^(\w+)(?:\(([^)]+)\))?:?\s*$  and a next line that starts "-"
ClassRule(ls, start_idx) ==
    LET line == Strip(LineAt(ls, start_idx))
        n    == WordRun(line)
    IN  IF /\ ClassShape(line, 1)
           /\ start_idx + 1 < Len(ls)
           /\ StartsWith(Strip(LineAt(ls, start_idx + 1)), "-")
        THEN Some(Component("class", Slice(line, 1, n),
                            IF At(line, n + 1) = "("
                            THEN Some(Slice(line, n + 2, IndexOf(line, ")") - 1))
                            ELSE None,
                            ClassMembers(ls, start_idx + 1, <<>>, <<>>),
                            None, None, None))
        ELSE None

\* the return type a lazy (.+?) takes from the text t after the arrow's
\* whitespace: the shortest non-empty prefix followed by :?\s*$
LazyReturn(t) ==
    IF t = "" THEN ""
    ELSE Slice(t, 1, Least({r \in 1..Len(t) : ColonSpaceTail(From(t, r + 1))}))

\* rule 4:  ^(?:async\s+)?def\s+(\w+)\((.*?)\)(?:\s*->\s*(.+?))?:?\s*$
FunctionRule(ls, start_idx) ==
    LET line   == Strip(LineAt(ls, start_idx))
        c      == SkipSpace(From(AfterAsync(line), 4))
        n      == WordRun(c)
        rest   == From(c, n + 2)
        closes == {k \in 1..Len(rest) :
                      /\ At(rest, k) = ")"
                      /\ \/ HasArrow(From(rest, k + 1))
                         \/ ColonSpaceTail(From(rest, k + 1))}
    IN  IF FuncPrefix(line) /\ closes # {}
        THEN LET k    == Least(closes)
                 tail == From(rest, k + 1)
                 name == Slice(c, 1, n)
                 next == IF start_idx + 1 < Len(ls)
                         THEN Strip(LineAt(ls, start_idx + 1)) ELSE ""
             IN  Some(Component("function", name, None,
                     <<Method(name, Slice(rest, 1, k - 1),
                              IF HasArrow(tail)
                              THEN Some(Strip(LazyReturn(SkipSpace(ArrowRest(tail)))))
                              ELSE None,
                              None, DecoratorsAbove(ls, start_idx - 1),
                              StartsWith(line, "async "))>>,
                     None, None,
                     IF StartsWith(next, "\"\"\"")
                     THEN Some(StripBy(next, "quote")) ELSE None))
        ELSE None

\* the four rules in order; raised is the IndexError of rule 1
ParseComponent(ls, start_idx) ==
    LET line == Strip(LineAt(ls, start_idx))
    IN  IF AssignRaises(line) THEN [raised |-> TRUE, component |-> None]
        ELSE [raised |-> FALSE,
              component |->
                 IF AssignRule(line) # None THEN AssignRule(line)
                 ELSE IF ConstantRule(line) # None THEN ConstantRule(line)
                 ELSE IF ClassRule(ls, start_idx) # None THEN ClassRule(ls, start_idx)
                 ELSE FunctionRule(ls, start_idx)]

(***************************************************************************)
(* _find_component_end                                                     *)
(***************************************************************************)
\* the line ends the component that started before it
EndsComponent(line) ==
    \/ StartsWith(line, "deps:")
    \/ StartsWith(line, "notes:")
    \/ StartsWith(line, "#")
    \/ /\ line # "" /\ ~StartsWith(line, "-") /\ ~StartsWith(line, "@")
       /\ \/ FuncPrefix(line)
          \/ ClassShape(line, 0)
          \/ ConstPrefix(line)
          \/ HasChar(line, "=") /\ ~StartsWith(line, "-")

\* a bug: the index of the boundary line is returned, not the one before it
RECURSIVE ScanEnd_ReturnsBoundary(_, _)
ScanEnd_ReturnsBoundary(ls, k) ==
    IF k >= Len(ls) THEN Len(ls) - 1
    ELSE LET line == Strip(LineAt(ls, k))
         IN  IF line = "" \/ StartsWith(line, "\"\"\"") THEN ScanEnd_ReturnsBoundary(ls, k + 1)
             ELSE IF EndsComponent(line) THEN k
             ELSE ScanEnd_ReturnsBoundary(ls, k + 1)

\* the scan from 0-based index k
RECURSIVE ScanEnd(_, _)
ScanEnd(ls, k) ==
    IF k >= Len(ls) THEN Len(ls) - 1
    ELSE LET line == Strip(LineAt(ls, k))
         IN  IF line = "" \/ StartsWith(line, "\"\"\"") THEN ScanEnd(ls, k + 1)
             ELSE IF EndsComponent(line) THEN k - 1
             ELSE ScanEnd(ls, k + 1)

\* a bug: the span is not looked for, the start index is returned
FindComponentEnd_NoSpan(ls, start_idx) == start_idx

\* a bug: the scan starts at the component's own line
FindComponentEnd_FromStart(ls, start_idx) == ScanEnd(ls, start_idx)

FindComponentEnd(ls, start_idx) == ScanEnd(ls, start_idx + 1)

(***************************************************************************)
(* parse_content: one action for the header and one per loop iteration.    *)
(* visited is the history of the cursor, consumed the indices the          *)
(* class-member loop has read as body lines, depsLog the history of the    *)
(* texts handed to _parse_blueprint_refs.                                  *)
(***************************************************************************)
CurLine == Strip(LineAt(lines, i))

InLoop == pc = "loop" /\ i < Len(lines)

Visit(to) == visited' = Append(visited, [index |-> i, to |-> to])

\* a bug: only the empty list is refused
HeaderMissing_EmptyOnly(ls) == Len(ls) = 0

\* line 66: not lines or not lines[0].startswith('#')
HeaderMissing(ls) == Len(ls) = 0 \/ ~StartsWith(ls[1], "#")

\* lines 63-67: the header check fails
ParseHeaderRaise ==
    /\ pc = "start"
    /\ lines' = Split(Strip(content), "\n")
    /\ HeaderMissing(lines')
    /\ pc' = "raised"
    /\ error' = "ValueError"
    /\ UNCHANGED <<content, i, blueprint, visited, consumed, depsLog, arg, res>>

\* lines 63-79: the header is read and the cursor set
ParseHeader ==
    /\ pc = "start"
    /\ lines' = Split(Strip(content), "\n")
    /\ ~HeaderMissing(lines')
    /\ blueprint' = Some(Blueprint(Strip(StripBy(lines'[1], "hash")),
                                   IF Len(lines') > 1 THEN Strip(lines'[2]) ELSE "",
                                   content))
    /\ i' = 2
    /\ pc' = "loop"
    /\ UNCHANGED <<content, error, visited, consumed, depsLog, arg, res>>

\* lines 83-88
DepsStep ==
    /\ InLoop
    /\ StartsWith(CurLine, "deps:")
    /\ LET deps_str == Strip(From(CurLine, 6))
       IN  /\ blueprint' = Some([blueprint[1] EXCEPT
                                    !.blueprint_refs = ParseBlueprintRefs(deps_str)])
           /\ depsLog' = Append(depsLog, deps_str)
    /\ i' = i + 1
    /\ Visit("deps")
    /\ UNCHANGED <<content, pc, lines, error, consumed, arg, res>>

\* lines 90-94
NotesStep ==
    /\ InLoop
    /\ ~StartsWith(CurLine, "deps:")
    /\ StartsWith(CurLine, "notes:")
    /\ blueprint' = Some([blueprint[1] EXCEPT
                             !.notes = StripAll(Split(Strip(From(CurLine, 7)), ","))])
    /\ i' = i + 1
    /\ Visit("notes")
    /\ UNCHANGED <<content, pc, lines, error, consumed, depsLog, arg, res>>

\* the line goes to _parse_component
ToClassifier ==
    /\ InLoop
    /\ ~StartsWith(CurLine, "deps:")
    /\ ~StartsWith(CurLine, "notes:")
    /\ CurLine # "" /\ ~StartsWith(CurLine, "#")

\* lines 96-102: a component is found and the cursor jumps past its span
ComponentStep ==
    /\ ToClassifier
    /\ LET r == ParseComponent(lines, i)
       IN  /\ ~r.raised
           /\ r.component # None
           /\ blueprint' = Some([blueprint[1] EXCEPT
                                    !.components = Append(@, r.component[1])])
           /\ consumed' = IF r.component[1].type = "class"
                          THEN consumed \cup ((i + 1)..(BodyStop(lines, i + 1) - 1))
                          ELSE consumed
    /\ i' = FindComponentEnd(lines, i) + 1
    /\ Visit("classifier")
    /\ UNCHANGED <<content, pc, lines, error, depsLog, arg, res>>

\* line 98 with the IndexError of line 153 leaving parse_content
ComponentRaise ==
    /\ ToClassifier
    /\ ParseComponent(lines, i).raised
    /\ pc' = "raised"
    /\ error' = "IndexError"
    /\ Visit("classifier")
    /\ UNCHANGED <<content, lines, i, blueprint, consumed, depsLog, arg, res>>

\* lines 96-104: no component, the line is skipped
ComponentSkip ==
    /\ ToClassifier
    /\ ~ParseComponent(lines, i).raised
    /\ ParseComponent(lines, i).component = None
    /\ i' = i + 1
    /\ Visit("classifier")
    /\ UNCHANGED <<content, pc, lines, blueprint, error, consumed, depsLog, arg, res>>

\* lines 105-106: a blank or comment line
BlankStep ==
    /\ InLoop
    /\ ~StartsWith(CurLine, "deps:")
    /\ ~StartsWith(CurLine, "notes:")
    /\ ~(CurLine # "" /\ ~StartsWith(CurLine, "#"))
    /\ i' = i + 1
    /\ Visit("skip")
    /\ UNCHANGED <<content, pc, lines, blueprint, error, consumed, depsLog, arg, res>>

\* line 108
Return ==
    /\ pc = "loop"
    /\ ~(i < Len(lines))
    /\ pc' = "returned"
    /\ UNCHANGED <<content, lines, i, blueprint, error, visited, consumed, depsLog,
                   arg, res>>

Next ==
    \/ ParseHeaderRaise
    \/ ParseHeader
    \/ DepsStep
    \/ NotesStep
    \/ ComponentStep
    \/ ComponentRaise
    \/ ComponentSkip
    \/ BlankStep
    \/ Return

(***************************************************************************)
(* The inputs of parse_content: a header and a description followed by up  *)
(* to MaxBody lines.                                                       *)
(***************************************************************************)
MaxBody == 3

Prefixes ==
    {"#m\nd", " #m\nd", "\n#m\nd", "#\nd", "m\nd", "## a.b #\n@dec"}

BodyLines ==
    {"deps: .a[X]; req", "deps: @b", "notes: n, o", "Foo(Base):",
     "- bar(x) -> str  # hi", "@dec", "", "def f()", "= 5", "prose text.",
     "Aa = b"}

\* "\n".join of the lines, each preceded by a line break
RECURSIVE JoinLines(_)
JoinLines(ls) == IF ls = <<>> THEN "" ELSE "\n" \o Head(ls) \o JoinLines(Tail(ls))

Bodies == UNION {[1..n -> BodyLines] : n \in 0..MaxBody}

\* every body after the plain header, and the short bodies after every header
Contents ==
    {"", "#m"}
    \cup {"#m\nd" \o JoinLines(b) : b \in Bodies}
    \cup {p \o JoinLines(b) : p \in Prefixes, b \in {c \in Bodies : Len(c) <= 1}}

Init ==
    /\ content \in Contents
    /\ pc = "start"
    /\ lines = <<>>
    /\ i = 0
    /\ blueprint = None
    /\ error = ""
    /\ visited = <<>>
    /\ consumed = {}
    /\ depsLog = <<>>
    /\ arg = <<>>
    /\ res = <<>>

Spec == Init /\ [][Next]_vars

(***************************************************************************)
(* Properties of parse_content.                                            *)
(***************************************************************************)
Terminated == pc \in {"returned", "raised"}

\* the first line of the text as given
RawFirstLine == Split(content, "\n")[1]

\* the first character of the text that is not whitespace, "" if none
FirstVisible == At(content, FirstNot(content, 1, "space"))

HeaderError == pc = "raised" /\ error = "ValueError"

\* C1 as stated: the header error is raised, and no Document built, exactly
\* when the first line of the input text does not begin with "#"
C1_Original ==
    pc # "start" =>
        /\ ~StartsWith(RawFirstLine, "#") => HeaderError /\ blueprint = None
        /\ StartsWith(RawFirstLine, "#") => ~HeaderError

\* C1 amended: the header error is raised, and no Document built, exactly
\* when the text with its leading whitespace (blank lines included) removed
\* is empty or does not begin with "#"
C1_HeaderError ==
    pc # "start" =>
        /\ FirstVisible # "#" => HeaderError /\ blueprint = None
        /\ FirstVisible = "#" => ~HeaderError

\* a text that is not empty is refused
C1_Witness == HeaderError /\ content # "" /\ blueprint = None

\* C2 as stated: a text whose first line begins with "#" is parsed to the
\* end without any failure
C2_Original == StartsWith(RawFirstLine, "#") => pc # "raised"

\* the set of indices a class component read as its body never holds an
\* index the cursor has been at or will be at
NotRedispatched ==
    /\ \A k \in 1..Len(visited) : visited[k].index \notin consumed
    /\ pc = "loop" => \A c \in consumed : c < i

\* the span of every class the classifier produced reaches its last body line
SpanCoversBody ==
    \A k \in 1..Len(visited) :
        LET s == visited[k].index
        IN  (/\ visited[k].to = "classifier"
             /\ ClassRule(lines, s) # None
             /\ ParseComponent(lines, s).component = ClassRule(lines, s))
            => FindComponentEnd(lines, s) >= BodyStop(lines, s + 1) - 1

\* C3: the Span Resolver's index for a class is at least the index of the
\* last body line the classifier consumed, and no body line is dispatched
C3_BodySkipped == NotRedispatched /\ SpanCoversBody

\* a class body was consumed and the cursor went on to a later line
C3_Witness ==
    /\ consumed # {}
    /\ \E k \in 1..Len(visited) : \A c \in consumed : visited[k].index > c

\* the cursor values form a strictly increasing sequence from 2
VisitedIncreasing ==
    /\ Len(visited) >= 1 => visited[1].index = 2
    /\ \A k \in 1..(Len(visited) - 1) : visited[k].index < visited[k + 1].index

\* the loop has run at most once per line after the two header lines, and
\* the cursor is within the lines or just past them
IterationsBounded ==
    pc # "start" =>
        /\ Len(visited) <= Len(lines)
        /\ \A k \in 1..Len(visited) : visited[k].index < Len(lines)
        /\ pc = "loop" => (2 <= i /\ (i <= Len(lines) \/ i = 2))

\* C4: the cursor starts at 2 and strictly increases on every iteration
\* that does not leave the parse, so the indices dispatched are strictly
\* increasing and the loop runs at most once per line: the parse ends
C4_CursorTerminates ==
    /\ [][/\ (pc = "start" /\ pc' = "loop") => i' = 2
          /\ (pc = "loop" /\ pc' = "loop") => i' > i
          /\ (pc = "loop" /\ pc' # "loop") => Terminated']_vars
    /\ []VisitedIncreasing
    /\ []IterationsBounded

\* a parse that ended after a jump over more than one line
C4_Witness ==
    /\ pc = "returned"
    /\ \E k \in 1..(Len(visited) - 1) : visited[k + 1].index > visited[k].index + 1

\* C5 as stated: the returned Document's module_name is not empty and is the
\* header line without the "#" marker and surrounding whitespace
C5_Original ==
    pc = "returned" =>
        /\ blueprint[1].module_name # ""
        /\ blueprint[1].module_name = Strip(StripBy(lines[1], "hash"))

\* the entries of a deps text that are blueprint references, in order
IsRefEntry(e) == StartsWith(e, ".") \/ StartsWith(e, "@")
RefEntries(deps_str) == SelectSeq(StripAll(Split(deps_str, ";")), IsRefEntry)

\* refs holds one Dependency per reference entry, in the order of entries
OnePerEntry(refs, entries) ==
    /\ Len(refs) = Len(entries)
    /\ \A k \in 1..Len(refs) : Contains(entries[k], refs[k].module_path)

\* the reference entries of all the deps texts of a history, in order
RECURSIVE AllRefEntries(_)
AllRefEntries(log) ==
    IF log = <<>> THEN <<>> ELSE RefEntries(Head(log)) \o AllRefEntries(Tail(log))

\* C6 as stated: the dependency list holds one Dependency per reference
\* entry of every deps line dispatched so far
C6_Original ==
    pc \in {"loop", "returned"} =>
        OnePerEntry(blueprint[1].blueprint_refs, AllRefEntries(depsLog))

\* C6 amended: the dependency list holds, in declaration order, one
\* Dependency per reference entry of the last deps line dispatched, and is
\* empty when none was
C6_LastDepsLine ==
    pc \in {"loop", "returned"} =>
        OnePerEntry(blueprint[1].blueprint_refs,
                    IF depsLog = <<>> THEN <<>>
                    ELSE RefEntries(depsLog[Len(depsLog)]))

\* two deps lines were dispatched and the list is not empty
C6_Witness ==
    /\ pc = "returned"
    /\ Len(depsLog) >= 2
    /\ blueprint[1].blueprint_refs # <<>>

(***************************************************************************)
(* The helpers called on their own: one call of _parse_blueprint_refs,     *)
(* _parse_component or _find_component_end on an input in arg, the result  *)
(* in res.                                                                 *)
(***************************************************************************)
MaxEntries == 3
MaxMembers == 5
MaxSpan == 2

DepsEntries ==
    {".a", "@b", "req", " .m[X, Y] ", "@p [x]", ".q[z", ".r]s[t", "", "@[]", "x[.y]"}

\* ";".join of the entries
RECURSIVE JoinEntries(_)
JoinEntries(es) ==
    IF es = <<>> THEN ""
    ELSE IF Len(es) = 1 THEN es[1]
    ELSE Head(es) \o ";" \o JoinEntries(Tail(es))

DepsStrings ==
    {JoinEntries(es) : es \in UNION {[1..n -> DepsEntries] : n \in 0..MaxEntries}}

MemberLines == {"@a", "@b", "- m()", "- !", "", "- p: int"}

ClassInputs ==
    {[lines |-> <<"Foo:">> \o b, start_idx |-> 0] :
        b \in UNION {[1..n -> MemberLines] : n \in 0..MaxMembers}}

AssignNames == {"Aa", "AB", "A_B", "mytype", "TYPE_X", "x", "", "Ab:c", "A"}

LineForms == {" = v", ": int = 1", ":", "", "(B):", "=="}

OtherLines == {"def f()", "async def g(a) -> int:", "just prose."}

LineInputs ==
    {[lines |-> <<above, line, below>>, start_idx |-> 1] :
        above \in {"@d", "x"},
        line \in {n \o f : n \in AssignNames, f \in LineForms} \cup OtherLines,
        below \in {"- m()", "\"\"\"doc\"\"\"", "x"}}

ComponentInputs == ClassInputs \cup LineInputs

EndLines ==
    {"", "\"\"\"doc\"\"\"", "deps: x", "notes: y", "# c", "- m()", "@d", "def f(",
     "Foo(B):", "MAX: int", "a = b", "prose text.", "  - a = b"}

EndInputs ==
    UNION {{[lines |-> ls, start_idx |-> s] : s \in 0..(Len(ls) - 1)} :
              ls \in UNION {[1..n -> EndLines] : n \in 1..(MaxSpan + 1)}}

UnitInit ==
    /\ \/ pc = "call_refs" /\ arg \in DepsStrings
       \/ pc = "call_component" /\ arg \in ComponentInputs
       \/ pc = "call_end" /\ arg \in EndInputs
    /\ res = <<>>
    /\ content = ""
    /\ lines = <<>>
    /\ i = 0
    /\ blueprint = None
    /\ error = ""
    /\ visited = <<>>
    /\ consumed = {}
    /\ depsLog = <<>>

CallParseBlueprintRefs ==
    /\ pc = "call_refs"
    /\ res' = ParseBlueprintRefs(arg)
    /\ pc' = "done_refs"
    /\ UNCHANGED <<content, lines, i, blueprint, error, visited, consumed, depsLog, arg>>

CallParseComponent ==
    /\ pc = "call_component"
    /\ res' = ParseComponent(arg.lines, arg.start_idx)
    /\ pc' = "done_component"
    /\ UNCHANGED <<content, lines, i, blueprint, error, visited, consumed, depsLog, arg>>

CallFindComponentEnd ==
    /\ pc = "call_end"
    /\ res' = FindComponentEnd(arg.lines, arg.start_idx)
    /\ pc' = "done_end"
    /\ UNCHANGED <<content, lines, i, blueprint, error, visited, consumed, depsLog, arg>>

UnitNext ==
    \/ CallParseBlueprintRefs
    \/ CallParseComponent
    \/ CallFindComponentEnd

UnitSpec == UnitInit /\ [][UnitNext]_vars

(***************************************************************************)
(* Properties of the helpers.                                              *)
(***************************************************************************)
\* t without a leading "@"
WithoutAt(t) == IF StartsWith(t, "@") THEN From(t, 2) ELSE t

\* the text between the first "[" and the first "]" of an entry with both
BracketBody(e) == Slice(After(e, "["), 1, Find(e, 1, "]") - Find(e, 1, "[") - 1)

\* the Dependency the claim describes for a reference entry
ClaimedRef(e) ==
    IF HasChar(e, "[") /\ HasChar(e, "]")
    THEN [module_path |-> WithoutAt(Strip(Before(e, "["))),
          items |-> StripAll(Split(BracketBody(e), ","))]
    ELSE [module_path |-> WithoutAt(e), items |-> <<>>]

\* C7: the result holds, for each trimmed entry that starts with "." or "@"
\* and in their order, the Dependency described: with both brackets the
\* trimmed text before the first "[" without a leading "@" and the trimmed
\* comma-split bracket body, otherwise the entry without a leading "@" and
\* no items; the other entries yield nothing
C7_Refs == pc = "done_refs" => res = [k \in 1..Len(RefEntries(arg)) |-> ClaimedRef(RefEntries(arg)[k])]

\* a result with items, with a dot-prefixed path, with an entry that has
\* "[" alone, and with an entry dropped
C7_Witness ==
    /\ pc = "done_refs"
    /\ Len(res) = 2
    /\ res[1].items = <<"X", "Y">> /\ res[1].module_path = ".m"
    /\ res[2].items = <<>> /\ res[2].module_path = ".q[z"
    /\ Contains(arg, "req")

\* the first of the constant, class and function rules that matches
LaterRules(ls, s) ==
    IF ConstantRule(Strip(LineAt(ls, s))) # None THEN ConstantRule(Strip(LineAt(ls, s)))
    ELSE IF ClassRule(ls, s) # None THEN ClassRule(ls, s)
    ELSE FunctionRule(ls, s)

\* C8 as stated: a line with "=" that does not start with "-" and whose name
\* has no ":" gives a type_alias for a PascalCase or "type" name, else an
\* auto constant for an upper-case name with "_"; in every other case the
\* constant, class and function rules are tried in that order
C8_Original ==
    pc = "done_component" =>
        LET line == Strip(LineAt(arg.lines, arg.start_idx))
            name == AssignName(line)
            assignment == AssignGuard(line) /\ ~HasChar(name, ":")
            alias == \/ IsUpper(At(name, 1)) /\ \E k \in 1..Len(name) : IsLower(At(name, k))
                     \/ Contains(Lower(name), "type")
            auto == StrIsUpper(name) /\ HasChar(name, "_")
        IN  /\ ~res.raised
            /\ IF assignment /\ alias
               THEN /\ res.component # None
                    /\ res.component[1].type = "type_alias"
                    /\ res.component[1].name = name
               ELSE IF assignment /\ auto
               THEN /\ res.component # None
                    /\ res.component[1].type = "constant"
                    /\ res.component[1].properties = Some("auto")
               ELSE res.component = LaterRules(arg.lines, arg.start_idx)

\* the boundary lines of the claim
IsBoundary(line) ==
    /\ line # "" /\ ~StartsWith(line, "\"\"\"")
    /\ \/ StartsWith(line, "deps:") \/ StartsWith(line, "notes:") \/ StartsWith(line, "#")
       \/ /\ ~StartsWith(line, "-") /\ ~StartsWith(line, "@")
          /\ \/ FuncPrefix(line) \/ ClassShape(line, 0) \/ ConstPrefix(line)
             \/ HasChar(line, "=")

\* C9: the result r has s <= r <= len(lines)-1 and r+1 is the index of the
\* first boundary line after s; without one r is the last index
C9_SpanEnd ==
    pc = "done_end" =>
        LET n == Len(arg.lines)
            s == arg.start_idx
            B == {k \in (s + 1)..(n - 1) : IsBoundary(Strip(LineAt(arg.lines, k)))}
        IN  /\ s <= res /\ res <= n - 1
            /\ B = {} => res = n - 1
            /\ B # {} => res + 1 = Least(B)

\* a span that runs over a skipped line and ends before a boundary
C9_Witness ==
    /\ pc = "done_end"
    /\ arg.start_idx = 0
    /\ res = 1
    /\ Len(arg.lines) = 3

\* the body line at index k is a "-" member the Member Parser accepts
Accepted(ls, k) ==
    /\ StartsWith(Strip(LineAt(ls, k)), "-")
    /\ ParseMethod(Strip(From(Strip(LineAt(ls, k)), 2))) # None

IsDecoratorLine(line) == StartsWith(line, "@")

\* the "@" lines strictly between the indices lo and hi, in source order
DecoratorsBetween(ls, lo, hi) ==
    SelectSeq([m \in 1..(hi - lo - 1) |-> Strip(LineAt(ls, lo + m))], IsDecoratorLine)

\* the j-th smallest element of a set of numbers
Nth(S, j) == CHOOSE k \in S : Cardinality({m \in S : m < k}) = j - 1

\* C10: the methods of a class are its accepted members in order, and each
\* carries exactly the "@" lines between the accepted member before it (or
\* the class line) and itself, in source order; "@" lines after the last
\* accepted member are carried by no method
C10_Decorators ==
    (pc = "done_component" /\ res.component # None /\ res.component[1].type = "class") =>
        LET ls  == arg.lines
            s   == arg.start_idx
            acc == {k \in (s + 1)..(BodyStop(ls, s + 1) - 1) : Accepted(ls, k)}
            ms  == res.component[1].methods
        IN  /\ Len(ms) = Cardinality(acc)
            /\ \A j \in 1..Len(ms) :
                  ms[j].decorators =
                      DecoratorsBetween(ls, IF j = 1 THEN s ELSE Nth(acc, j - 1), Nth(acc, j))

\* two decorators carried over a refused member to the second method, and
\* a trailing decorator carried by none
C10_Witness ==
    /\ pc = "done_component"
    /\ arg.lines = <<"Foo:", "- m()", "@a", "- !", "@b", "- p: int">>
    /\ Len(res.component[1].methods) = 2
    /\ res.component[1].methods[2].decorators = <<"@a", "@b">>

====
